---- MODULE Spec2Model ----
(***************************************************************************)
(* A model of doktor's chat client (src/doktor/chat.py, convo_db.py):      *)
(* the token estimator, the conversation window, the three streaming       *)
(* backend adapters, the dispatcher and the turn loop of main().           *)
(*                                                                         *)
(* Text is a sequence of characters; a character is a one-character        *)
(* string, except TwoByteChar, which stands for one code point that takes  *)
(* two bytes in UTF-8.                                                     *)
(***************************************************************************)
EXTENDS Integers, Sequences, FiniteSets, TLC

VARIABLES
    \* ---- the estimator, applied to drawn strings (SpecTokens)
    tPc,            \* "off" | "input" | "estimated"
    tIn,            \* [role, s, t]: a role and two strings
    tOut,           \* [est_s, est_t, cost]: count_tokens of s, of t, of the entry text
    \* ---- the window, applied to a drawn history (SpecWindow)
    wPc,            \* "off" | "input" | "windowed" | "rewindowed"
    wDb,            \* the stored entries, in creation order
    wState,         \* State(model, max_tokens, session_id)
    wOut,           \* load_conversation_history(wDb, wState)
    wOut2,          \* the window of wOut stored as a history of its own
    \* ---- one run of main() (Spec)
    pc,             \* position in main(): "off" | "start" | "ready" | "appended" |
                    \*   "windowed" | "generator" | "streaming" | "completed" |
                    \*   "exited" | "failed"
    mode,           \* "file" | "oneoff" | "interactive" (the parsed arguments)
    env,            \* [model, api_key_set, max_tokens]: CHATGPT_CLI_MODEL, whether the
                    \*   backend's API key is set, the max_tokens the configuration gives
    main_state,     \* STATE of main(): State(model, max_tokens, session_id)
    db,             \* the rows of the conversation table, in creation order
    turn,           \* turns started in this run
    conversation_history,   \* the window of the turn
    ai_response,    \* the text main() accumulates
    error,          \* what ended the run: [type, message]
    \* ---- observations of the turn
    invoked,        \* the adapters chat() called, in order
    calls,          \* times the retry wrapper called the adapter function
    requests,       \* requests sent to the backend
    request_model,  \* the model named in the last request sent
    wire,           \* wire units of the response read so far
    yielded,        \* fragments the stream yielded to main()
    assistant_appends       \* assistant rows added

tvars == <<tPc, tIn, tOut>>
wvars == <<wPc, wDb, wState, wOut, wOut2>>
obsvars == <<invoked, calls, requests, request_model, wire, yielded, assistant_appends>>
mvars == <<pc, mode, env, main_state, db, turn, conversation_history, ai_response, error,
           obsvars>>
vars == <<tvars, wvars, mvars>>

----------------------------------------------------------------------------
(* Bounds of the model *)

\* longest string the estimator is applied to
MaxStrLen == 4
\* longest content of an entry of a drawn history
MaxContentLen == 3
\* longest drawn history
MaxHist == 3
\* largest token budget (max_tokens) drawn
MaxBudget == 6
\* length of the long question
LongQuestionLen == 7
\* wire units of one response
MaxWire == 2
\* turns of one run
MaxTurns == 2

----------------------------------------------------------------------------
(* Text *)

TwoByteChar == "E9"

AsciiChars == {"a"}

Chars == AsciiChars \cup {TwoByteChar}

SeqsUpTo(S, n) == UNION { [1..k -> S] : k \in 0..n }

Rep(c, n) == [i \in 1..n |-> c]

Reverse(s) == [i \in 1..Len(s) |-> s[Len(s) + 1 - i]]

\* bytes of the UTF-8 encoding of a character
ByteWidth(c) == IF c = TwoByteChar THEN 2 ELSE 1

RECURSIVE ByteLength(_)
ByteLength(text) ==
    IF text = <<>> THEN 0 ELSE ByteWidth(Head(text)) + ByteLength(Tail(text))

\* the characters of the two role names the program stores
RoleText(role) ==
    CASE role = "user" -> <<"u", "s", "e", "r">>
      [] role = "assistant" -> <<"a", "s", "s", "i", "s", "t", "a", "n", "t">>

Roles == {"user", "assistant"}

----------------------------------------------------------------------------
(* chat.py: count_tokens *)

count_tokens_ceil(text) == (Len(text) + 3) \div 4

\* len(text) // 4: len of a str counts code points, // is floor division
count_tokens(text) == Len(text) \div 4

----------------------------------------------------------------------------
(* convo_db.py: entries *)

NoModel == "None"

\* session_id = None, the default of add_entry and get_entries_past_week
NoSession == 0

\* timedelta(weeks=1), in days
WeekDays == 7

\* the day datetime.utcnow() reads during the run
Today == 8

\* a day more than a week before Today
LongAgo == Today - WeekDays - 1

\* the primary key the table gives the next row
NextId(db_session) ==
    IF db_session = <<>> THEN 1 ELSE db_session[Len(db_session)].id + 1

\* ConversationEntry(role, content, session_id, model) as the table holds it:
\* with its primary key and its created_at
ConversationEntry(id, role, content, session_id, model, created_at) ==
    [id |-> id, role |-> role, content |-> content, session_id |-> session_id,
     model |-> model, created_at |-> created_at]

\* add_entry: db_session.add(entry); db_session.commit()
add_entry(db_session, role, content, session_id, model, utcnow) ==
    Append(db_session,
           ConversationEntry(NextId(db_session), role, content, session_id, model, utcnow))

\* get_entries_past_week: the rows created in the past week, of the session
\* when one is given, of every session otherwise, in creation order
get_entries_past_week(db_session, session_id, utcnow) ==
    LET one_week_ago == utcnow - WeekDays
        past_week == SelectSeq(db_session, LAMBDA e : e.created_at >= one_week_ago)
    IN  IF session_id # NoSession
        THEN SelectSeq(past_week, LAMBDA e : e.session_id = session_id)
        ELSE past_week

\* delete_entry: the row of that primary key is removed, if there is one
delete_entry(db_session, entry_id) ==
    IF \E i \in 1..Len(db_session) : db_session[i].id = entry_id
    THEN SelectSeq(db_session, LAMBDA e : e.id # entry_id)
    ELSE db_session

----------------------------------------------------------------------------
(* chat.py: load_conversation_history *)

\* f"{entry.role}: {entry.content}\n"
entry_text(entry) == RoleText(entry.role) \o <<":", " ">> \o entry.content \o <<"\n">>

Fits_strict(token_count, entry_token_count, max_tokens) ==
    token_count + entry_token_count < max_tokens

\* the test of line 44
Fits(token_count, entry_token_count, max_tokens) ==
    token_count + entry_token_count <= max_tokens

\* {"role": entry.role, "content": entry.content}
Message(entry) == [role |-> entry.role, content |-> entry.content]

\* the loop with the entry appended before the budget is tested
RECURSIVE WindowScan_inclusive(_, _, _, _, _)
WindowScan_inclusive(entries, i, token_count, conversation_text, max_tokens) ==
    IF i = 0
    THEN conversation_text
    ELSE LET entry_token_count == count_tokens(entry_text(entries[i]))
         IN  IF Fits(token_count, entry_token_count, max_tokens)
             THEN WindowScan_inclusive(entries, i - 1, token_count + entry_token_count,
                             Append(conversation_text, Message(entries[i])),
                             max_tokens)
             ELSE Append(conversation_text, Message(entries[i]))

\* the loop over reversed(entries): i is the index of the entry looked at,
\* conversation_text the list appended to, newest first
RECURSIVE WindowScan(_, _, _, _, _)
WindowScan(entries, i, token_count, conversation_text, max_tokens) ==
    IF i = 0
    THEN conversation_text
    ELSE LET entry_token_count == count_tokens(entry_text(entries[i]))
         IN  IF Fits(token_count, entry_token_count, max_tokens)
             THEN WindowScan(entries, i - 1, token_count + entry_token_count,
                             Append(conversation_text, Message(entries[i])),
                             max_tokens)
             ELSE conversation_text

load_conversation_history_unreversed(db_session, state, utcnow) ==
    LET entries == get_entries_past_week(db_session, state.session_id, utcnow)
    IN  WindowScan(entries, Len(entries), 0, <<>>, state.max_tokens)

load_conversation_history(db_session, state, utcnow) ==
    LET entries == get_entries_past_week(db_session, state.session_id, utcnow)
    IN  Reverse(WindowScan(entries, Len(entries), 0, <<>>, state.max_tokens))

----------------------------------------------------------------------------
(* The estimator on drawn strings *)

TokOff == [role |-> "user", s |-> <<>>, t |-> <<>>]
TokNone == [est_s |-> 0, est_t |-> 0, cost |-> 0]

TInit ==
    /\ tPc = "input"
    /\ tIn \in [role : Roles, s : SeqsUpTo(Chars, MaxStrLen), t : SeqsUpTo(Chars, MaxStrLen)]
    /\ tOut = TokNone

TIdle == tPc = "off" /\ tIn = TokOff /\ tOut = TokNone

Estimate ==
    /\ tPc = "input"
    /\ tPc' = "estimated"
    /\ tOut' = [est_s |-> count_tokens(tIn.s),
                est_t |-> count_tokens(tIn.t),
                cost |-> count_tokens(entry_text(
                            ConversationEntry(1, tIn.role, tIn.s, NoSession, NoModel, Today)))]
    /\ UNCHANGED <<tIn, wvars, mvars>>

----------------------------------------------------------------------------
(* The window on drawn histories *)

SessionId == 1

\* another session of the same table
ForeignSessionId == 2

\* role and content of the rows drawn
WindowEntries ==
    { [role |-> r, content |-> Rep("a", n)] : r \in Roles, n \in 0..MaxContentLen }

\* the oldest row of the table drawn: of the session and recent, of the session
\* and older than a week, or of another session
FirstRowKinds == {"own", "old", "foreign"}

\* the table after the rows were added in order; created_at never decreases
StoredRows(drafts, kind) ==
    [i \in 1..Len(drafts) |->
        ConversationEntry(i, drafts[i].role, drafts[i].content,
                          IF i = 1 /\ kind = "foreign" THEN ForeignSessionId ELSE SessionId,
                          NoModel,
                          IF i = 1 /\ kind = "old" THEN LongAgo ELSE Today)]

\* a primary key no row has
MissingId == MaxHist + 2

\* the keys delete_entry is called with
DeletedIds == {2, MissingId}

State(model, max_tokens, session_id) ==
    [model |-> model, max_tokens |-> max_tokens, session_id |-> session_id]

WInit ==
    /\ wPc = "input"
    /\ wDb \in { StoredRows(drafts, kind) :
                    drafts \in SeqsUpTo(WindowEntries, MaxHist), kind \in FirstRowKinds }
    /\ wState \in { State("m", b, sid) : b \in 0..MaxBudget, sid \in {SessionId, NoSession} }
    /\ wOut = <<>>
    /\ wOut2 = <<>>

WIdle ==
    /\ wPc = "off"
    /\ wDb = <<>>
    /\ wState = State("m", 0, SessionId)
    /\ wOut = <<>>
    /\ wOut2 = <<>>

\* delete_entry is called on the table before the window is taken
DeleteEntry ==
    /\ wPc = "input"
    /\ \E entry_id \in DeletedIds : wDb' = delete_entry(wDb, entry_id)
    /\ UNCHANGED <<wPc, wState, wOut, wOut2, tvars, mvars>>

ApplyWindow ==
    /\ wPc = "input"
    /\ wPc' = "windowed"
    /\ wOut' = load_conversation_history(wDb, wState, Today)
    /\ UNCHANGED <<wDb, wState, wOut2, tvars, mvars>>

\* the messages of a window stored as the entries of a session
AsEntries(messages) ==
    [i \in 1..Len(messages) |->
        ConversationEntry(i, messages[i].role, messages[i].content, SessionId,
                          NoModel, Today)]

ReWindow ==
    /\ wPc = "windowed"
    /\ wPc' = "rewindowed"
    /\ wOut2' = load_conversation_history(AsEntries(wOut), wState, Today)
    /\ UNCHANGED <<wDb, wState, wOut, tvars, mvars>>

----------------------------------------------------------------------------
(* Text helpers of main() *)

Whitespace == {" ", "\n"}

RECURSIVE LStrip(_)
LStrip(text) ==
    IF text # <<>> /\ Head(text) \in Whitespace THEN LStrip(Tail(text)) ELSE text

RECURSIVE RStrip(_)
RStrip(text) ==
    IF text # <<>> /\ text[Len(text)] \in Whitespace
    THEN RStrip(SubSeq(text, 1, Len(text) - 1))
    ELSE text

\* str.strip()
Strip(text) == RStrip(LStrip(text))

\* str.startswith(prefix)
StartsWith(text, prefix) ==
    Len(text) >= Len(prefix) /\ SubSeq(text, 1, Len(prefix)) = prefix

\* "assistant:"
AssistantPrefix == RoleText("assistant") \o <<":">>

----------------------------------------------------------------------------
(* config.py (not in the sources): the registry of the specification, 4.1 *)

SupportedBackends == {"openai", "anthropic", "ollama"}

\* the configured models and their backend kinds; "palm" is configured with
\* a backend kind that no adapter serves
ModelBackends ==
    ("gpt-4" :> "openai") @@ ("sonnet" :> "anthropic") @@ ("claude-2" :> "anthropic")
        @@ ("llama2" :> "ollama") @@ ("palm" :> "palm")

\* a name that is not configured
UnknownModel == "nope"

ModelNames == DOMAIN ModelBackends \cup {UnknownModel}

\* lookup(modelName): fails with ConfigError if the name is unknown or its
\* backend kind is unsupported
get_model_config(name, max_tokens) ==
    IF name \in DOMAIN ModelBackends /\ ModelBackends[name] \in SupportedBackends
    THEN [ok |-> TRUE, backend |-> ModelBackends[name], max_tokens |-> max_tokens]
    ELSE [ok |-> FALSE, backend |-> "", max_tokens |-> 0]

----------------------------------------------------------------------------
(* Errors *)

NoError == [type |-> "none", message |-> ""]

Raised(type, message) == [type |-> type, message |-> message]

ConfigError == Raised("ConfigError", "")
EmptyHistoryError == Raised("ValueError", "Conversation history is empty")
TransportError == Raised("TransportError", "")
KeyboardInterrupt == Raised("KeyboardInterrupt", "")
\* print("Your message is too long. Please try again.") and leave
MessageTooLong == Raised("none", "Your message is too long. Please try again.")

----------------------------------------------------------------------------
(* The wire: what a backend may send, one unit at a time *)

Frags == {<<" ", "H", "i">>, AssistantPrefix}

ErrMsgs == {"rate limited"}

None == [is_none |-> TRUE, value |-> <<>>]
Some(v) == [is_none |-> FALSE, value |-> v]

\* a line of an Anthropic response: the text before the payload, and the
\* payload's JSON object
AnthropicLine(marker, type, text, err) ==
    [marker |-> marker, json |-> [type |-> type, delta |-> [text |-> text], error |-> err]]

AnthropicLines ==
    {AnthropicLine("event: ", "", <<>>, "")}
        \cup { AnthropicLine("data: ", "content_block_delta", f, "") : f \in Frags }
        \cup { AnthropicLine("data: ", "error", <<>>, m) : m \in ErrMsgs }
        \cup {AnthropicLine("data: ", "ping", <<>>, "")}

\* a line of an Ollama response: empty, or a JSON object with the keys given
OllamaLine(empty, keys, response, err) ==
    [empty |-> empty, json |-> [keys |-> keys, response |-> response, error |-> err]]

OllamaLines ==
    {OllamaLine(TRUE, {}, <<>>, "")}
        \cup { OllamaLine(FALSE, {"response"}, f, "") : f \in Frags \cup {<<>>} }
        \cup { OllamaLine(FALSE, {"error"}, <<>>, m) : m \in ErrMsgs }

\* a chunk of an OpenAI stream: choices[0].delta.content, or no choice at all
OpenAIChunk(content) == [choices |-> <<[delta |-> [content |-> content]]>>]

OpenAIChunks ==
    { OpenAIChunk(Some(f)) : f \in Frags }
        \cup {OpenAIChunk(Some(<<>>)), OpenAIChunk(None), [choices |-> <<>>]}

WireUnits(adapter) ==
    CASE adapter = "anthropic" -> AnthropicLines
      [] adapter = "ollama" -> OllamaLines
      [] adapter = "openai" -> OpenAIChunks

----------------------------------------------------------------------------
(* chat.py: the adapters, one wire unit at a time *)

Yield(text) == [kind |-> "yield", text |-> text, error |-> NoError]
Skip == [kind |-> "skip", text |-> <<>>, error |-> NoError]
Raise(err) == [kind |-> "raise", text |-> <<>>, error |-> err]

ANTHROPIC_MODEL_MAP ==
    ("opus" :> "claude-3-opus-20240229") @@ ("sonnet" :> "claude-3-sonnet-20240229")
        @@ ("haiku" :> "claude-3-haiku-20240307")

anthropic_line_ignores_error(line) ==
    IF line.marker = "data: " /\ line.json.type = "content_block_delta"
    THEN Yield(line.json.delta.text)
    ELSE Skip

anthropic_line_strict(line) ==
    IF line.marker = "data: "
    THEN IF line.json.type = "content_block_delta"
         THEN Yield(line.json.delta.text)
         ELSE Raise(Raised("Exception",
                    "Error receiving response from anthropic server: "
                        \o line.json.error))
    ELSE Skip

\* the body of the loop over response.iter_lines() in chat_with_anthropic
anthropic_line(line) ==
    IF line.marker = "data: "
    THEN IF line.json.type = "content_block_delta"
         THEN Yield(line.json.delta.text)
         ELSE IF line.json.type = "error"
              THEN Raise(Raised("Exception",
                         "Error receiving response from anthropic server: "
                             \o line.json.error))
              ELSE Skip
    ELSE Skip

\* the body of the loop over response.iter_lines() in chat_with_ollama
ollama_line(line) ==
    IF line.empty
    THEN Skip
    ELSE IF "error" \in line.json.keys
         THEN Raise(Raised("Exception",
                    "Error receiving response from ollama server: " \o line.json.error))
         ELSE IF "response" \in line.json.keys
              THEN Yield(line.json.response)
              ELSE Raise(Raised("KeyError", "response"))

openai_chunk_aborting(chunk) ==
    IF chunk.choices = <<>>
    THEN Raise(Raised("IndexError", "list index out of range"))
    ELSE LET chunk_content == chunk.choices[1].delta.content
         IN  IF ~chunk_content.is_none /\ chunk_content.value # <<>>
             THEN Yield(chunk_content.value)
             ELSE Skip

\* the body of the loop over the response in chat_with_openai: an exception
\* of the chunk's processing is printed and the loop goes on
openai_chunk(chunk) ==
    IF chunk.choices = <<>>
    THEN Skip
    ELSE LET chunk_content == chunk.choices[1].delta.content
         IN  IF ~chunk_content.is_none /\ chunk_content.value # <<>>
             THEN Yield(chunk_content.value)
             ELSE Skip

adapter_unit(adapter, unit) ==
    CASE adapter = "anthropic" -> anthropic_line(unit)
      [] adapter = "ollama" -> ollama_line(unit)
      [] adapter = "openai" -> openai_chunk(unit)

\* @retry(stop_max_attempt_number=3, wait_fixed=1000)
stop_max_attempt_number == 3

\* the adapters under @retry
Retried == {"anthropic", "openai"}

\* the wrapper of @retry: the function is called, and called again while the
\* call raises and fewer than stop_max_attempt_number calls were made;
\* raises[k] tells whether the k-th call raises.  The number of calls made.
RECURSIVE RetryingCalls(_, _)
RetryingCalls(raises, attempt_number) ==
    IF raises[attempt_number] /\ attempt_number < stop_max_attempt_number
    THEN RetryingCalls(raises, attempt_number + 1)
    ELSE attempt_number

\* chat_with_anthropic and chat_with_openai hold a yield: a call runs none of
\* the body and returns a generator, so no call raises
GeneratorCallRaises == [k \in 1..stop_max_attempt_number |-> FALSE]

----------------------------------------------------------------------------
(* chat.py: chat *)

chat_adapter_swapped(config) ==
    IF config.backend = "ollama"
    THEN "anthropic"
    ELSE IF config.backend = "anthropic" THEN "ollama" ELSE "openai"

\* the adapter chat() calls for a configuration
chat_adapter(config) ==
    IF config.backend = "ollama"
    THEN "ollama"
    ELSE IF config.backend = "anthropic" THEN "anthropic" ELSE "openai"

----------------------------------------------------------------------------
(* chat.py: main *)

Modes == {"file", "oneoff", "interactive"}

\* the session of an earlier run, and the session this run creates
PriorSessionId == 1
NewSessionId == 2

\* configured token budgets drawn
Budgets == {1, 3, MaxBudget}

\* what the user types, passes with -q or stores in the file
Questions == {<<"q">>, Rep("q", LongQuestionLen) \o <<"\n">>}

MInit ==
    /\ pc = "start"
    /\ mode \in Modes
    /\ env \in [model : ModelNames, api_key_set : BOOLEAN, max_tokens : Budgets]
    /\ main_state = State("", 0, 0)
    /\ db = <<ConversationEntry(1, "user", <<"q">>, PriorSessionId, NoModel, Today)>>
    /\ turn = 0
    /\ conversation_history = <<>>
    /\ ai_response = <<>>
    /\ error = NoError
    /\ invoked = <<>>
    /\ calls = 0
    /\ requests = 0
    /\ request_model = ""
    /\ wire = <<>>
    /\ yielded = <<>>
    /\ assistant_appends = 0

MIdle ==
    /\ pc = "off"
    /\ mode = "interactive"
    /\ env = [model |-> UnknownModel, api_key_set |-> FALSE, max_tokens |-> 1]
    /\ main_state = State("", 0, 0)
    /\ db = <<>>
    /\ turn = 0
    /\ conversation_history = <<>>
    /\ ai_response = <<>>
    /\ error = NoError
    /\ invoked = <<>>
    /\ calls = 0
    /\ requests = 0
    /\ request_model = ""
    /\ wire = <<>>
    /\ yielded = <<>>
    /\ assistant_appends = 0

Propagate_continue(err) ==
    /\ pc' = "ready"
    /\ error' = err
    /\ UNCHANGED <<db, assistant_appends>>

Propagate_persisting(err) ==
    /\ pc' = "failed"
    /\ error' = err
    /\ db' = add_entry(db, "assistant", ai_response, main_state.session_id, NoModel, Today)
    /\ assistant_appends' = assistant_appends + 1

\* an exception leaves main(): nothing catches it, the run ends
Propagate(err) ==
    /\ pc' = "failed"
    /\ error' = err
    /\ UNCHANGED <<db, assistant_appends>>

\* lines 156-169: the model's configuration is looked up, the session created
Startup ==
    /\ pc = "start"
    /\ LET config == get_model_config(env.model, env.max_tokens)
       IN  IF config.ok
           THEN /\ main_state' = State(env.model, config.max_tokens, NewSessionId)
                /\ pc' = "ready"
                /\ UNCHANGED <<error, db, assistant_appends>>
           ELSE /\ Propagate(ConfigError)
                /\ UNCHANGED main_state
    /\ UNCHANGED <<mode, env, turn, conversation_history, ai_response,
                   invoked, calls, requests, request_model, wire, yielded, tvars, wvars>>

\* whether the question is refused before it is stored (file and one-off mode)
TooLong(question) ==
    mode \in {"file", "oneoff"} /\ count_tokens(question) > main_state.max_tokens

\* the user message stored for a question
UserMessage(question) ==
    IF mode = "oneoff" THEN question ELSE Strip(question)

\* lines 173-181, 205-210, 239-245: a question arrives and is stored; one over
\* the budget is refused, by return in file mode and by exit(1) in one-off mode
AskQuestion ==
    /\ pc = "ready"
    /\ turn < MaxTurns
    /\ \E question \in Questions :
          IF TooLong(question)
          THEN /\ pc' = IF mode = "oneoff" THEN "failed" ELSE "exited"
               /\ error' = IF mode = "oneoff"
                           THEN Raised("SystemExit", MessageTooLong.message)
                           ELSE MessageTooLong
               /\ UNCHANGED db
          ELSE /\ pc' = "appended"
               /\ db' = add_entry(db, "user", UserMessage(question),
                                  main_state.session_id, NoModel, Today)
               /\ UNCHANGED error
    /\ turn' = turn + 1
    /\ UNCHANGED <<conversation_history, ai_response>>
    /\ invoked' = <<>>
    /\ calls' = 0
    /\ requests' = 0
    /\ request_model' = ""
    /\ wire' = <<>>
    /\ yielded' = <<>>
    /\ assistant_appends' = 0
    /\ UNCHANGED <<mode, env, main_state, tvars, wvars>>

LoadHistory_unchecked ==
    /\ pc = "appended"
    /\ conversation_history' = load_conversation_history(db, main_state, Today)
    /\ pc' = "windowed"
    /\ ai_response' = <<>>
    /\ UNCHANGED <<error, db, assistant_appends>>
    /\ UNCHANGED <<mode, env, main_state, turn,
                   invoked, calls, requests, request_model, wire, yielded, tvars, wvars>>

\* lines 183-187, 212-216, 247-251: the window is built; an empty one is fatal,
\* otherwise the response accumulated starts empty
LoadHistory ==
    /\ pc = "appended"
    /\ conversation_history' = load_conversation_history(db, main_state, Today)
    /\ IF conversation_history' = <<>>
       THEN /\ Propagate(EmptyHistoryError)
            /\ UNCHANGED ai_response
       ELSE /\ pc' = "windowed"
            /\ ai_response' = <<>>
            /\ UNCHANGED <<error, db, assistant_appends>>
    /\ UNCHANGED <<mode, env, main_state, turn,
                   invoked, calls, requests, request_model, wire, yielded, tvars, wvars>>

\* lines 53-62: chat() looks the configuration up and calls one adapter; the
\* call returns a generator whose body has not started
Dispatch ==
    /\ pc = "windowed"
    /\ LET config == get_model_config(main_state.model, main_state.max_tokens)
       IN  IF config.ok
           THEN /\ invoked' = Append(invoked, chat_adapter(config))
                /\ calls' = IF chat_adapter(config) \in Retried
                            THEN RetryingCalls(GeneratorCallRaises, 1)
                            ELSE 1
                /\ pc' = "generator"
                /\ UNCHANGED <<error, db, assistant_appends>>
           ELSE /\ Propagate(ConfigError)
                /\ UNCHANGED <<invoked, calls>>
    /\ UNCHANGED <<mode, env, main_state, turn, conversation_history, ai_response,
                   requests, request_model, wire, yielded, tvars, wvars>>

resolve_anthropic_passthrough(model) == [ok |-> TRUE, actual_model |-> model]

\* ANTHROPIC_MODEL_MAP[state.model] of line 68: the concrete model of an
\* alias, a KeyError for any other name
resolve_anthropic(model) ==
    IF model \in DOMAIN ANTHROPIC_MODEL_MAP
    THEN [ok |-> TRUE, actual_model |-> ANTHROPIC_MODEL_MAP[model]]
    ELSE [ok |-> FALSE, actual_model |-> ""]

\* the environment variable an adapter reads its credential from
ApiKeyVariable(adapter) ==
    IF adapter = "anthropic" THEN "ANTHROPIC_API_KEY" ELSE "OPENAI_API_KEY"

BeforeRequest_no_credential_check(adapter) ==
    IF adapter = "anthropic" /\ ~resolve_anthropic(main_state.model).ok
    THEN Raised("KeyError", main_state.model)
    ELSE NoError

\* what stops an adapter before its request: the alias lookup of line 68,
\* the credential checks of lines 76-78 and 126-128 (print_red, then exit(1))
BeforeRequest(adapter) ==
    IF adapter = "anthropic" /\ ~resolve_anthropic(main_state.model).ok
    THEN Raised("KeyError", main_state.model)
    ELSE IF adapter \in {"anthropic", "openai"} /\ ~env.api_key_set
         THEN Raised("SystemExit", "Please set env var " \o ApiKeyVariable(adapter))
         ELSE NoError

\* the "model" of the request: lines 88, 109 and 130-131
RequestModel(adapter) ==
    IF adapter = "anthropic"
    THEN resolve_anthropic(main_state.model).actual_model
    ELSE main_state.model

FirstNext_retrying ==
    /\ pc = "generator"
    /\ LET adapter == invoked[Len(invoked)]
       IN  IF BeforeRequest(adapter) # NoError
           THEN /\ Propagate(BeforeRequest(adapter))
                /\ UNCHANGED <<requests, request_model>>
           ELSE /\ requests' = requests + 1
                /\ request_model' = RequestModel(adapter)
                /\ \E carried \in BOOLEAN :
                      IF carried
                      THEN /\ pc' = "streaming"
                           /\ UNCHANGED <<error, db, assistant_appends>>
                      ELSE IF requests + 1 < stop_max_attempt_number
                           THEN UNCHANGED <<pc, error, db, assistant_appends>>
                           ELSE Propagate(TransportError)
    /\ UNCHANGED <<mode, env, main_state, turn, conversation_history, ai_response,
                   invoked, calls, wire, yielded, tvars, wvars>>

\* the first next() of the for loop: the body runs up to the request, which
\* the transport carries or fails
FirstNext ==
    /\ pc = "generator"
    /\ LET adapter == invoked[Len(invoked)]
       IN  IF BeforeRequest(adapter) # NoError
           THEN /\ Propagate(BeforeRequest(adapter))
                /\ UNCHANGED <<requests, request_model>>
           ELSE /\ requests' = requests + 1
                /\ request_model' = RequestModel(adapter)
                /\ \E carried \in BOOLEAN :
                      IF carried
                      THEN /\ pc' = "streaming"
                           /\ UNCHANGED <<error, db, assistant_appends>>
                      ELSE Propagate(TransportError)
    /\ UNCHANGED <<mode, env, main_state, turn, conversation_history, ai_response,
                   invoked, calls, wire, yielded, tvars, wvars>>

\* the adapter reads one more wire unit; a fragment it yields is added to
\* ai_response (lines 190-192, 219-221, 254-256)
StreamUnit ==
    /\ pc = "streaming"
    /\ Len(wire) < MaxWire
    /\ LET adapter == invoked[Len(invoked)]
       IN  \E unit \in WireUnits(adapter) :
              LET step == adapter_unit(adapter, unit)
              IN  /\ wire' = Append(wire, unit)
                  /\ CASE step.kind = "yield" ->
                             /\ yielded' = Append(yielded, step.text)
                             /\ ai_response' = ai_response \o step.text
                             /\ UNCHANGED <<pc, error, db, assistant_appends>>
                       [] step.kind = "skip" ->
                             UNCHANGED <<yielded, ai_response, pc, error, db,
                                         assistant_appends>>
                       [] step.kind = "raise" ->
                             /\ Propagate(step.error)
                             /\ UNCHANGED <<yielded, ai_response>>
    /\ UNCHANGED <<mode, env, main_state, turn, conversation_history,
                   invoked, calls, requests, request_model, tvars, wvars>>

\* the response ends: the generator returns and the for loop is left
StreamEnd ==
    /\ pc = "streaming"
    /\ pc' = "completed"
    /\ UNCHANGED <<mode, env, main_state, db, turn, conversation_history, ai_response,
                   error, obsvars, tvars, wvars>>

StreamBreaks_restart ==
    /\ pc = "streaming"
    /\ invoked[Len(invoked)] \in {"openai", "ollama"}
    /\ IF requests < stop_max_attempt_number
       THEN /\ pc' = "generator"
            /\ wire' = <<>>
            /\ UNCHANGED <<error, db, assistant_appends>>
       ELSE /\ Propagate(TransportError)
            /\ UNCHANGED wire
    /\ UNCHANGED <<mode, env, main_state, turn, conversation_history, ai_response,
                   invoked, calls, requests, request_model, yielded, tvars, wvars>>

\* the connection breaks while the response is read; requests.post of the
\* Anthropic adapter has read the whole body before the first line is looked at
StreamBreaks ==
    /\ pc = "streaming"
    /\ invoked[Len(invoked)] \in {"openai", "ollama"}
    /\ Propagate(TransportError)
    /\ UNCHANGED <<mode, env, main_state, turn, conversation_history, ai_response,
                   invoked, calls, requests, request_model, wire, yielded, tvars, wvars>>

\* Ctrl-C while the response is consumed
Interrupt ==
    /\ pc = "streaming"
    /\ Propagate(KeyboardInterrupt)
    /\ UNCHANGED <<mode, env, main_state, turn, conversation_history, ai_response,
                   invoked, calls, requests, request_model, wire, yielded, tvars, wvars>>

StoredResponse_all_modes ==
    IF StartsWith(ai_response, AssistantPrefix)
    THEN Strip(SubSeq(ai_response, Len(AssistantPrefix) + 1, Len(ai_response)))
    ELSE ai_response

\* the text stored as the assistant message: lines 260-262 in interactive mode
StoredResponse ==
    IF mode = "interactive" /\ StartsWith(ai_response, AssistantPrefix)
    THEN Strip(SubSeq(ai_response, Len(AssistantPrefix) + 1, Len(ai_response)))
    ELSE ai_response

\* the assistant message stored while the stream is still being read
Persist_early ==
    /\ pc \in {"streaming", "completed"}
    /\ db' = add_entry(db, "assistant", StoredResponse, main_state.session_id,
                       IF mode = "interactive" THEN main_state.model ELSE NoModel,
                       Today)
    /\ assistant_appends' = assistant_appends + 1
    /\ ai_response' = StoredResponse
    /\ pc' = IF mode = "interactive" THEN "ready" ELSE "exited"
    /\ UNCHANGED <<mode, env, main_state, turn, conversation_history, error,
                   invoked, calls, requests, request_model, wire, yielded, tvars, wvars>>

\* lines 194-201, 223-230, 258-270: the assistant message is stored; file and
\* one-off mode exit, interactive mode asks again
Persist ==
    /\ pc = "completed"
    /\ db' = add_entry(db, "assistant", StoredResponse, main_state.session_id,
                       IF mode = "interactive" THEN main_state.model ELSE NoModel,
                       Today)
    /\ assistant_appends' = assistant_appends + 1
    /\ ai_response' = StoredResponse
    /\ pc' = IF mode = "interactive" THEN "ready" ELSE "exited"
    /\ UNCHANGED <<mode, env, main_state, turn, conversation_history, error,
                   invoked, calls, requests, request_model, wire, yielded, tvars, wvars>>

----------------------------------------------------------------------------
(* Specifications *)

Init == MInit /\ TIdle /\ WIdle

Next ==
    \/ Startup
    \/ AskQuestion
    \/ LoadHistory
    \/ Dispatch
    \/ FirstNext
    \/ StreamUnit
    \/ StreamEnd
    \/ StreamBreaks
    \/ Interrupt
    \/ Persist

Spec == Init /\ [][Next]_vars

InitTokens == TInit /\ WIdle /\ MIdle

SpecTokens == InitTokens /\ [][Estimate]_vars

InitWindow == WInit /\ TIdle /\ MIdle

NextWindow == DeleteEntry \/ ApplyWindow \/ ReWindow

SpecWindow == InitWindow /\ [][NextWindow]_vars
----------------------------------------------------------------------------
(* Properties of a run of main() (Spec) *)

\* the adapter of the turn, "none" before chat() has called one
Adapter == IF invoked = <<>> THEN "none" ELSE invoked[Len(invoked)]

\* the rows of the run's session with the role given
SessionRows(role) ==
    SelectSeq(db, LAMBDA e : e.session_id = NewSessionId /\ e.role = role)

TurnOpen == pc \in {"appended", "windowed", "generator", "streaming", "completed"}

\* the turn ended without an assistant message: an error left main(), or the
\* question was refused
TurnFailed == turn > 0 /\ (pc = "failed" \/ (pc = "exited" /\ error = MessageTooLong))

\* C2: a transport failure of the OpenAI or Anthropic adapter is surfaced only
\* after stop_max_attempt_number attempts of the whole call.
C2_TransportFailureRetried ==
    (pc = "failed" /\ error = TransportError /\ Adapter \in Retried) =>
        requests = stop_max_attempt_number

\* C3: the assistant message is stored at most once per turn: the session
\* holds one assistant row per completed turn, and none for a turn that is
\* open or has failed, whatever was yielded.
C3_AssistantPersistedAtMostOnce ==
    /\ assistant_appends <= 1
    /\ Len(SessionRows("assistant")) =
          IF TurnOpen \/ TurnFailed THEN turn - 1 ELSE turn
    /\ (TurnOpen \/ TurnFailed) => assistant_appends = 0

\* a turn that failed after fragments were delivered
C3_Witness ==
    /\ pc = "failed"
    /\ turn = 2
    /\ yielded # <<>>
    /\ Len(SessionRows("assistant")) = 1
    /\ Len(SessionRows("user")) = 2

\* C4: an empty window fails the turn with the empty-history error before any
\* adapter is called or request sent; the window of an empty history is empty.
C4_EmptyWindowFailsBeforeBackend ==
    /\ \A b \in 0..MaxBudget :
          load_conversation_history(<<>>, State("m", b, NewSessionId), Today) = <<>>
    /\ pc \in {"windowed", "generator", "streaming", "completed"} =>
          conversation_history # <<>>
    /\ (invoked # <<>> \/ requests > 0) => conversation_history # <<>>
    /\ error = EmptyHistoryError =>
          /\ pc = "failed"
          /\ conversation_history = <<>>
          /\ invoked = <<>>
          /\ requests = 0

\* the stored question alone is over the budget
C4_Witness ==
    /\ pc = "failed"
    /\ error = EmptyHistoryError
    /\ Len(SessionRows("user")) = 1

IsErrorFrame(line) == line.marker = "data: " /\ line.json.type = "error"

IsDeltaFrame(line) == line.marker = "data: " /\ line.json.type = "content_block_delta"

\* the delta texts of the lines, in order
DeltaTexts(lines) ==
    LET deltas == SelectSeq(lines, IsDeltaFrame)
    IN  [i \in 1..Len(deltas) |-> deltas[i].json.delta.text]

\* C8: an Anthropic error frame is the last line read: the stream has failed
\* with the server's message, the fragments of the deltas before the frame
\* have been yielded and nothing else.
C8_AnthropicErrorAborts ==
    Adapter = "anthropic" =>
        \A i \in 1..Len(wire) :
            IsErrorFrame(wire[i]) =>
                /\ i = Len(wire)
                /\ pc = "failed"
                /\ error = Raised("Exception",
                       "Error receiving response from anthropic server: "
                           \o wire[i].json.error)
                /\ yielded = DeltaTexts(SubSeq(wire, 1, i - 1))

\* an error frame after a delta
C8_Witness ==
    /\ Adapter = "anthropic"
    /\ Len(wire) = 2
    /\ IsDeltaFrame(wire[1])
    /\ IsErrorFrame(wire[2])
    /\ yielded = <<wire[1].json.delta.text>>

\* the text payloads of the content-bearing units of a wire, in order
Payloads(adapter, units) ==
    CASE adapter = "anthropic" -> DeltaTexts(units)
      [] adapter = "ollama" ->
            LET lines == SelectSeq(units, LAMBDA l : ~l.empty /\ "response" \in l.json.keys)
            IN  [i \in 1..Len(lines) |-> lines[i].json.response]
      [] adapter = "openai" ->
            LET chunks == SelectSeq(units, LAMBDA c :
                              /\ c.choices # <<>>
                              /\ ~c.choices[1].delta.content.is_none
                              /\ c.choices[1].delta.content.value # <<>>)
            IN  [i \in 1..Len(chunks) |-> chunks[i].choices[1].delta.content.value]

\* whether the unit reports a backend error
IsErrorUnit(adapter, unit) ==
    CASE adapter = "anthropic" -> IsErrorFrame(unit)
      [] adapter = "ollama" -> ~unit.empty /\ "error" \in unit.json.keys
      [] adapter = "openai" -> FALSE

RECURSIVE Concat(_)
Concat(texts) == IF texts = <<>> THEN <<>> ELSE Head(texts) \o Concat(Tail(texts))

\* C9: while the wire is error-free the fragments yielded are the payloads of
\* its content-bearing units, in wire order, and their concatenation is the
\* response text; an adapter raises only on a unit that reports an error.
C9_FragmentsAreWirePayloads ==
    /\ pc \in {"streaming", "completed"} =>
          /\ yielded = Payloads(Adapter, wire)
          /\ Concat(yielded) = Concat(Payloads(Adapter, wire))
    /\ (pc = "failed" /\ error.type \in {"Exception", "KeyError"} /\ wire # <<>>) =>
          IsErrorUnit(Adapter, wire[Len(wire)])

\* an Anthropic response of a line that carries no content and a delta
C9_Witness ==
    /\ pc = "completed"
    /\ Adapter = "anthropic"
    /\ Len(wire) = 2
    /\ ~IsDeltaFrame(wire[1])
    /\ IsDeltaFrame(wire[2])
    /\ yielded = <<wire[2].json.delta.text>>

\* C10: chat() calls exactly one adapter per turn, the one of the model's
\* configured backend kind; an unknown model or an unsupported backend kind
\* fails with a configuration error and no adapter is called.
C10_OneMatchingAdapter ==
    /\ Len(invoked) <= 1
    /\ pc \in {"generator", "streaming", "completed"} => Len(invoked) = 1
    /\ invoked # <<>> => invoked[1] = ModelBackends[env.model]
    /\ (env.model \notin DOMAIN ModelBackends
            \/ ModelBackends[env.model] \notin SupportedBackends) =>
          /\ pc \in {"start", "failed"}
          /\ pc = "failed" => error = ConfigError
          /\ invoked = <<>>
          /\ requests = 0

\* the Ollama adapter is streaming for the model configured with it
C10_Witness ==
    /\ pc = "streaming"
    /\ invoked = <<"ollama">>
    /\ ModelBackends[env.model] = "ollama"

\* C11: without the API key of the selected backend the adapter stops at its
\* credential check: no request is sent, the adapter was called once, and
\* the run ends on the message that names the variable.
C11_MissingCredentialFailsFast ==
    (Adapter \in Retried /\ ~env.api_key_set) =>
        /\ requests = 0
        /\ calls = 1
        /\ pc \in {"generator", "failed"}
        /\ (pc = "failed" /\ (Adapter = "openai" \/ resolve_anthropic(main_state.model).ok)) =>
              error = Raised("SystemExit", "Please set env var " \o ApiKeyVariable(Adapter))

\* the OpenAI adapter has stopped at its credential check
C11_Witness ==
    /\ pc = "failed"
    /\ Adapter = "openai"
    /\ ~env.api_key_set
    /\ error.type = "SystemExit"
    /\ requests = 0

\* C12: the dispatcher and the adapters never terminate the process: a run
\* that has called an adapter never ends on an exit raised by it.
C12_CoreNeverTerminates ==
    invoked # <<>> => error.type # "SystemExit"

AnthropicAliases == {"opus", "sonnet", "haiku"}

\* C13: opus, sonnet and haiku each resolve to one fixed concrete model, which
\* is the model the request names; with any other alias the Anthropic adapter
\* fails on the lookup before a request is sent.
C13_AnthropicAliasResolution ==
    /\ \A alias \in AnthropicAliases :
          /\ resolve_anthropic(alias).ok
          /\ resolve_anthropic(alias).actual_model \in
                {"claude-3-opus-20240229", "claude-3-sonnet-20240229",
                 "claude-3-haiku-20240307"}
          /\ \A other \in AnthropicAliases \ {alias} :
                resolve_anthropic(other).actual_model # resolve_anthropic(alias).actual_model
    /\ (Adapter = "anthropic" /\ requests > 0) =>
          /\ main_state.model \in AnthropicAliases
          /\ request_model = ANTHROPIC_MODEL_MAP[main_state.model]
    /\ (Adapter = "anthropic" /\ main_state.model \notin AnthropicAliases) =>
          /\ requests = 0
          /\ request_model = ""
          /\ pc \in {"generator", "failed"}
          /\ pc = "failed" => error = Raised("KeyError", main_state.model)

\* the Anthropic adapter has failed on a model that is no alias
C13_Witness ==
    /\ pc = "failed"
    /\ Adapter = "anthropic"
    /\ main_state.model = "claude-2"
    /\ error.type = "KeyError"

\* C14: within a turn every fragment delivered comes from its own unit of
\* the one response read: at most one request is made, and the fragments
\* yielded are the payloads of the units read, once each and in order, also
\* when the turn has failed.
C14_NoFragmentDeliveredTwice ==
    Adapter # "none" =>
        /\ requests <= 1
        /\ Len(yielded) <= Len(wire)
        /\ yielded = Payloads(Adapter, wire)

\* the connection broke after a fragment was delivered
C14_Witness ==
    /\ pc = "failed"
    /\ error = TransportError
    /\ Adapter = "openai"
    /\ Len(yielded) = 1
    /\ requests = 1

\* C15: a turn that failed on an Anthropic error frame, or on the Ollama
\* adapter in any way, has made exactly one request and one adapter call.
C15_ProtocolErrorsNotRetried ==
    (/\ pc = "failed"
     /\ \/ Adapter = "ollama"
        \/ (Adapter = "anthropic" /\ wire # <<>> /\ IsErrorFrame(wire[Len(wire)]))) =>
        /\ requests = 1
        /\ calls = 1

\* the Ollama adapter has failed on a line that carries an error
C15_Witness ==
    /\ pc = "failed"
    /\ Adapter = "ollama"
    /\ error.type = "Exception"
    /\ Len(wire) = 2
    /\ requests = 1

\* the turn's assistant message has been stored
Persisted == pc \in {"ready", "exited"} /\ assistant_appends = 1

\* C16 as stated: the stored assistant message is the concatenation of the
\* fragments of the turn, in every mode.
C16_StoredIsConcatenation ==
    Persisted => db[Len(db)].content = Concat(yielded)

\* C16 amended: the stored assistant message is the concatenation of the
\* fragments of the turn, except in interactive mode when the concatenation
\* starts with "assistant:": then it is the rest, stripped of whitespace.
C16_StoredIsConcatenationButPrefix ==
    Persisted =>
        /\ db[Len(db)].role = "assistant"
        /\ db[Len(db)].session_id = NewSessionId
        /\ db[Len(db)].content =
              IF mode = "interactive" /\ StartsWith(Concat(yielded), AssistantPrefix)
              THEN Strip(SubSeq(Concat(yielded), Len(AssistantPrefix) + 1,
                                Len(Concat(yielded))))
              ELSE Concat(yielded)

\* an interactive turn whose response began with the prefix
C16_Witness ==
    /\ Persisted
    /\ mode = "interactive"
    /\ yielded = <<AssistantPrefix, <<" ", "H", "i">>>>
    /\ db[Len(db)].content = <<"H", "i">>

\* C17: the OpenAI adapter never raises on a chunk: chunks without content or
\* without a choice yield nothing, and the chunks with content are yielded in
\* order whatever came before them.
C17_OpenAISkipsContentless ==
    Adapter = "openai" =>
        /\ error.type \notin {"Exception", "KeyError", "IndexError"}
        /\ \A i \in 1..Len(wire) :
              LET before == Payloads("openai", SubSeq(wire, 1, i - 1))
                  upto == Payloads("openai", SubSeq(wire, 1, i))
              IN  IF /\ wire[i].choices # <<>>
                     /\ ~wire[i].choices[1].delta.content.is_none
                     /\ wire[i].choices[1].delta.content.value # <<>>
                  THEN upto = Append(before, wire[i].choices[1].delta.content.value)
                  ELSE upto = before
        /\ Len(yielded) = Len(Payloads("openai", wire))
        /\ \A k \in 1..Len(yielded) : yielded[k] = Payloads("openai", wire)[k]

\* a chunk with content yielded after a chunk without a choice
C17_Witness ==
    /\ Adapter = "openai"
    /\ Len(wire) = 2
    /\ wire[1].choices = <<>>
    /\ Len(yielded) = 1
    /\ yielded[1] = wire[2].choices[1].delta.content.value

\* the steps main() may take from one position to the next
PcEdges ==
    {<<"start", "ready">>, <<"start", "failed">>,
     <<"ready", "appended">>, <<"ready", "exited">>, <<"ready", "failed">>,
     <<"appended", "windowed">>, <<"appended", "failed">>,
     <<"windowed", "generator">>, <<"windowed", "failed">>,
     <<"generator", "streaming">>, <<"generator", "failed">>,
     <<"streaming", "streaming">>, <<"streaming", "completed">>,
     <<"streaming", "failed">>,
     <<"completed", "ready">>, <<"completed", "exited">>}

\* each effect of a turn happens at its own position
OrderStep ==
    /\ <<pc, pc'>> \in PcEdges
    /\ Len(SessionRows("user"))' # Len(SessionRows("user")) =>
          pc = "ready" /\ pc' = "appended"
    /\ conversation_history' # conversation_history => pc = "appended"
    /\ (pc = "ready" /\ pc' # "appended") =>
          /\ db' = db
          /\ error'.message = MessageTooLong.message
    /\ invoked' \notin {invoked, <<>>} => pc = "windowed"
    /\ requests' > requests => pc = "generator"
    /\ yielded' \notin {yielded, <<>>} => pc = "streaming"
    /\ Len(SessionRows("assistant"))' # Len(SessionRows("assistant")) =>
          pc = "completed"

\* the history read in a turn ends with the turn's user message
ReadEndsWithUserMessage ==
    pc \in {"windowed", "generator", "streaming", "completed"} =>
        /\ conversation_history # <<>>
        /\ LET rows == get_entries_past_week(db, NewSessionId, Today)
               users == SessionRows("user")
           IN  /\ Len(users) = turn
               /\ conversation_history[Len(conversation_history)] = Message(users[turn])
               /\ rows[Len(rows)] = users[turn]

\* C18: a turn takes its steps in the order append user message, read and
\* window, dispatch, stream, append assistant message; the history read ends
\* with the turn's user message, and the assistant message is appended only
\* once the stream has ended.
C18_StepsInOrder ==
    [](ReadEndsWithUserMessage) /\ [][OrderStep]_vars

\* the second turn of a run has stored its assistant message
C18_Witness ==
    /\ pc = "ready"
    /\ turn = 2
    /\ assistant_appends = 1
    /\ Len(wire) = 2
    /\ Len(conversation_history) = 2

\* C19: in file and one-off mode the run never ends on the empty-history
\* error: a question that passed the length check has a non-empty window.
C19_PrecheckImpliesWindow ==
    mode \in {"file", "oneoff"} => error # EmptyHistoryError

\* the question was over the budget and refused before a turn began
Refused == error.message = MessageTooLong.message

\* the rows of the run's session
OwnRows == get_entries_past_week(db, NewSessionId, Today)

\* C20: the session's rows alternate user, assistant; there are as many
\* user rows as assistant rows, or one more; a failed turn has left its user
\* row without a reply, and nothing follows it.
C20_UserAssistantBalance ==
    /\ [](/\ Len(SessionRows("user")) - Len(SessionRows("assistant")) \in {0, 1}
          /\ \A i \in 1..Len(OwnRows) :
                OwnRows[i].role = IF i % 2 = 1 THEN "user" ELSE "assistant"
          /\ (pc = "failed" /\ turn > 0 /\ ~Refused) =>
                /\ Len(SessionRows("user")) = turn
                /\ Len(SessionRows("assistant")) = turn - 1
          /\ Refused => Len(OwnRows) = 0)
    /\ [][pc # "failed"]_vars

\* the second turn failed after the first was answered
C20_Witness ==
    /\ pc = "failed"
    /\ turn = 2
    /\ Len(OwnRows) = 3
    /\ OwnRows[3].role = "user"

----------------------------------------------------------------------------
(* Properties of the window (SpecWindow) *)

EntryCost(e) == count_tokens(entry_text(e))

RECURSIVE SumCost(_)
SumCost(es) == IF es = <<>> THEN 0 ELSE EntryCost(Head(es)) + SumCost(Tail(es))

\* the last k entries of h, as messages
SuffixMessages(h, k) == [i \in 1..k |-> Message(h[Len(h) - k + i])]

Windowed == wPc \in {"windowed", "rewindowed"}

\* the history the window is taken of: the rows the query returns
History == get_entries_past_week(wDb, wState.session_id, Today)

\* C1: the window is a contiguous suffix of the history, oldest first, whose
\* summed estimated cost is within the budget; it is empty exactly when the
\* history is empty or the most recent message alone costs more than the budget.
C1_WindowIsSuffixWithinBudget ==
    Windowed =>
        /\ Len(wOut) <= Len(History)
        /\ wOut = SuffixMessages(History, Len(wOut))
        /\ SumCost(wOut) <= wState.max_tokens
        /\ (wOut = <<>>) <=>
              (History = <<>> \/ EntryCost(History[Len(History)]) > wState.max_tokens)

\* a window of two different messages that leaves out an older entry
C1_Witness ==
    /\ wPc = "windowed"
    /\ Len(wOut) = 2
    /\ Len(History) = 3
    /\ wOut[1] # wOut[2]

\* cost of the entries i..Len(h) of h
SuffixCost(h, i) == SumCost(SubSeq(h, i, Len(h)))

\* index of the first entry, scanning from the newest, whose inclusion takes
\* the running total over the budget; 0 when there is none
FirstOverflow(h, b) ==
    LET over == { i \in 1..Len(h) : SuffixCost(h, i) > b }
    IN  IF over = {} THEN 0 ELSE CHOOSE i \in over : \A j \in over : j <= i

\* C5: the window is the maximal trailing run that fits: it holds exactly the
\* entries newer than the first overflowing entry, and the entry immediately
\* older than the window, if any, would not have fitted.
C5_MaximalTrailingRun ==
    Windowed =>
        /\ Len(wOut) = Len(History) - FirstOverflow(History, wState.max_tokens)
        /\ Len(wOut) < Len(History) =>
              SumCost(wOut) + EntryCost(History[Len(History) - Len(wOut)]) > wState.max_tokens

\* an entry older than the first overflowing one would fit in what is left of
\* the budget, and is left out
C5_Witness ==
    /\ wPc = "windowed"
    /\ wOut # <<>>
    /\ \E j \in 1..(Len(History) - Len(wOut) - 1) :
          SumCost(wOut) + EntryCost(History[j]) <= wState.max_tokens

\* C6: windowing a window again with the same budget returns it unchanged.
C6_WindowIdempotent ==
    wPc = "rewindowed" => wOut2 = wOut

\* a window that dropped part of the history has been windowed again
C6_Witness ==
    /\ wPc = "rewindowed"
    /\ Len(wOut) >= 2
    /\ Len(wOut) < Len(History)

----------------------------------------------------------------------------
(* Properties of the estimator (SpecTokens) *)

\* C7 as stated: the estimate is ceil(byteLength(s) / 4), and the cost of an
\* entry is that estimate of its role and content bytes.
C7_EstimateIsCeilOfBytes ==
    tPc = "estimated" =>
        /\ 4 * (tOut.est_s - 1) < ByteLength(tIn.s)
        /\ ByteLength(tIn.s) <= 4 * tOut.est_s
        /\ 4 * (tOut.cost - 1) < ByteLength(RoleText(tIn.role)) + ByteLength(tIn.s)
        /\ ByteLength(RoleText(tIn.role)) + ByteLength(tIn.s) <= 4 * tOut.cost

\* C7 amended: the estimate is floor(len(s) / 4) over characters, it is
\* monotonic in the length, and the cost of an entry is
\* ceil((len(role) + len(content)) / 4) over characters.
C7_EstimateIsFloorOfChars ==
    tPc = "estimated" =>
        /\ 4 * tOut.est_s <= Len(tIn.s)
        /\ Len(tIn.s) < 4 * (tOut.est_s + 1)
        /\ Len(tIn.s) <= Len(tIn.t) => tOut.est_s <= tOut.est_t
        /\ 4 * (tOut.cost - 1) < Len(RoleText(tIn.role)) + Len(tIn.s)
        /\ Len(RoleText(tIn.role)) + Len(tIn.s) <= 4 * tOut.cost

\* a string whose length is no multiple of 4 and holds a two-byte character,
\* estimated next to a longer one
C7_Witness ==
    /\ tPc = "estimated"
    /\ Len(tIn.s) = 3
    /\ TwoByteChar \in { tIn.s[i] : i \in 1..Len(tIn.s) }
    /\ Len(tIn.t) = 4
    /\ tOut.est_s < tOut.est_t

====
